---- MODULE Spec2Model ----
\* Model of the "Build Docker Image" workflow (src/unnamed/part_000):
\* job detect-changes computes the build matrix from a git diff, job
\* build-and-push fans the matrix out into one build unit per service.
\* Strings are sequences of one-character strings, so that prefix matching,
\* basename and substring expansion are computed, not assumed.
EXTENDS Integers, Sequences, FiniteSets, TLC

VARIABLES phase, step, event, objects, changed, matrixOut, unit, conclusion,
          registry, cacheStore, credsOk, runs

vars == <<phase, step, event, objects, changed, matrixOut, unit, conclusion,
          registry, cacheStore, credsOk, runs>>

\* ---------------------------------------------------------------- bounds
MaxLines == 3
MaxRuns == 2
MaxDigest == 2

\* --------------------------------------------------------------- strings
Range(s) == {s[i] : i \in 1..Len(s)}

StartsWith(s, pre) ==
  /\ Len(pre) <= Len(s)
  /\ \A i \in 1..Len(pre) : s[i] = pre[i]

Contains(s, sub) ==
  \E k \in 0..(Len(s) - Len(sub)) : \A i \in 1..Len(sub) : s[k + i] = sub[i]

\* the 12 directories of the `for dir in ...` loop
src_frontend == <<"s","r","c","/","f","r","o","n","t","e","n","d">>
src_cartservice == <<"s","r","c","/","c","a","r","t","s","e","r","v","i","c","e">>
src_checkoutservice == <<"s","r","c","/","c","h","e","c","k","o","u","t","s","e","r","v","i","c","e">>
src_currencyservice == <<"s","r","c","/","c","u","r","r","e","n","c","y","s","e","r","v","i","c","e">>
src_emailservice == <<"s","r","c","/","e","m","a","i","l","s","e","r","v","i","c","e">>
src_adservice == <<"s","r","c","/","a","d","s","e","r","v","i","c","e">>
src_loadgenerator == <<"s","r","c","/","l","o","a","d","g","e","n","e","r","a","t","o","r">>
src_paymentservice == <<"s","r","c","/","p","a","y","m","e","n","t","s","e","r","v","i","c","e">>
src_productcatalogservice == <<"s","r","c","/","p","r","o","d","u","c","t","c","a","t","a","l","o","g","s","e","r","v","i","c","e">>
src_recommendservice == <<"s","r","c","/","r","e","c","o","m","m","e","n","d","s","e","r","v","i","c","e">>
src_shippingservice == <<"s","r","c","/","s","h","i","p","p","i","n","g","s","e","r","v","i","c","e">>
src_shoppingassistantservice == <<"s","r","c","/","s","h","o","p","p","i","n","g","a","s","s","i","s","t","a","n","t","s","e","r","v","i","c","e">>

PathRegistry ==
  <<src_frontend,
    src_cartservice,
    src_checkoutservice,
    src_currencyservice,
    src_emailservice,
    src_adservice,
    src_loadgenerator,
    src_paymentservice,
    src_productcatalogservice,
    src_recommendservice,
    src_shippingservice,
    src_shoppingassistantservice>>

\* on.push.paths
TriggerPaths ==
  <<src_frontend \o <<"/","*","*">>,
    src_cartservice \o <<"/","*","*">>,
    src_checkoutservice \o <<"/","*","*">>,
    src_currencyservice \o <<"/","*","*">>,
    src_emailservice \o <<"/","*","*">>,
    src_adservice \o <<"/","*","*">>,
    src_loadgenerator \o <<"/","*","*">>,
    src_paymentservice \o <<"/","*","*">>,
    src_productcatalogservice \o <<"/","*","*">>,
    src_recommendservice \o <<"/","*","*">>,
    src_shippingservice \o <<"/","*","*">>,
    src_shoppingassistantservice \o <<"/","*","*">>,
    <<"r","e","l","e","a","s","e","/","*","*">>>>

\* file paths of the monorepo used as inputs
f_frontend_css == <<"s","r","c","/","f","r","o","n","t","e","n","d","/","s","t","a","t","i","c","/","x",".","c","s","s">>
f_cart_go == <<"s","r","c","/","c","a","r","t","s","e","r","v","i","c","e","/","m","a","i","n",".","g","o">>
f_cart2 == <<"s","r","c","/","c","a","r","t","s","e","r","v","i","c","e","2","/","x">>
f_cart_extra == <<"s","r","c","/","c","a","r","t","s","e","r","v","i","c","e","-","e","x","t","r","a","/","x">>
f_payment_js == <<"s","r","c","/","p","a","y","m","e","n","t","s","e","r","v","i","c","e","/","s","e","r","v","e","r",".","j","s">>
f_readme == <<"R","E","A","D","M","E",".","m","d">>
f_release == <<"r","e","l","e","a","s","e","/","x",".","y","a","m","l">>
f_docs == <<"d","o","c","s","/","s","r","c","/","f","r","o","n","t","e","n","d","/","x">>
f_bare == <<"s","r","c","/","f","r","o","n","t","e","n","d">>

\* commit references (40 hex digits in git, 9 here: longer than the short ref)
HeadA == <<"a","1","b","2","c","3","d","4","e">>
HeadB == <<"f","9","0","8","e","7","d","6","c">>
\* github.event.before of a push that creates the branch
ZeroSha == <<"0","0","0","0","0","0","0","0","0">>
\* a commit that a force push removed from every branch
GoneSha == <<"d","e","a","d","b","e","e","f","0">>
Commits == {HeadA, HeadB}
Befores == Commits \cup {ZeroSha, GoneSha}

\* the paths of the scenarios and their look-alikes
NamedPaths ==
  {f_frontend_css, f_cart_go, f_cart2, f_cart_extra, f_payment_js, f_readme,
   f_release, f_docs, f_bare}

\* with one path under each of the other registry directories
PoolPaths ==
  NamedPaths \cup {PathRegistry[i] \o <<"/","x">> : i \in 1..Len(PathRegistry)}

RECURSIVE SeqsUpTo(_, _)
SeqsUpTo(S, n) ==
  IF n = 0 THEN {<<>>}
  ELSE LET shorter == SeqsUpTo(S, n - 1)
       IN shorter \cup {Append(s, x) : s \in {t \in shorter : Len(t) = n - 1}, x \in S}

\* outputs `git diff --name-only` can print for two distinct commits: up to
\* MaxLines of the named paths, in any order and multiplicity, and shorter
\* lists over the whole pool
AllDiffs == SeqsUpTo(NamedPaths, MaxLines) \cup SeqsUpTo(PoolPaths, MaxLines - 1)

\* ------------------------------------------------- trigger (on.push.paths)
GlobMatches(pattern, path) ==
  LET n == Len(pattern)
  IN IF n >= 2 /\ pattern[n] = "*" /\ pattern[n - 1] = "*"
     THEN StartsWith(path, SubSeq(pattern, 1, n - 2))
     ELSE path = pattern

PathsFilter(diff) ==
  \E i \in 1..Len(TriggerPaths) : \E p \in Range(diff) : GlobMatches(TriggerPaths[i], p)

\* ------------------------------------------------------ job detect-changes
FetchDepth == 0

Checkout(depth, sha) == IF depth = 0 THEN Commits ELSE {sha}

GitDiffAlwaysDiffers(before, sha, objs, diff) ==
  IF before \in objs /\ sha \in objs
  THEN [status |-> 0, out |-> diff]
  ELSE [status |-> 128, out |-> <<>>]
\* git diff --name-only before sha; diff names the paths in which the head's
\* tree differs from the tree of another commit
GitDiffNameOnly(before, sha, objs, diff) ==
  IF before \in objs /\ sha \in objs
  THEN [status |-> 0, out |-> IF before = sha THEN <<>> ELSE diff]
  ELSE [status |-> 128, out |-> <<>>]

ErrexitOff == FALSE
\* `run:` without `shell:` is executed by `bash -e`
Errexit == TRUE

\* echo "$changed": one line per path, a single empty line when there is none
EchoLines(text) == IF text = <<>> THEN << <<>> >> ELSE text

GrepRegexNoSlash(dir) == <<"^">> \o dir
GrepRegex(dir) == <<"^">> \o dir \o <<"/">>

\* grep -q for a pattern that is a literal with an optional leading ^
GrepQ(lines, regex) ==
  IF regex # <<>> /\ regex[1] = "^"
  THEN \E l \in Range(lines) : StartsWith(l, Tail(regex))
  ELSE \E l \in Range(lines) : Contains(l, regex)

ServiceJson(dir) == <<"{\"service\":\"">> \o dir \o <<"\"}">>

RECURSIVE ServicesLoopPrepend(_, _, _)
ServicesLoopPrepend(dirs, lines, services) ==
  IF dirs = <<>> THEN services
  ELSE ServicesLoopPrepend(Tail(dirs), lines,
         IF GrepQ(lines, GrepRegex(Head(dirs)))
         THEN <<ServiceJson(Head(dirs))>> \o services
         ELSE services)

\* for dir in ...; do if echo "$changed" | grep -q "^$dir/"; then services+=(...)
RECURSIVE ServicesLoop(_, _, _)
ServicesLoop(dirs, lines, services) ==
  IF dirs = <<>> THEN services
  ELSE ServicesLoop(Tail(dirs), lines,
         IF GrepQ(lines, GrepRegex(Head(dirs)))
         THEN Append(services, ServiceJson(Head(dirs)))
         ELSE services)

RECURSIVE Join(_, _)
Join(parts, sep) ==
  IF parts = <<>> THEN <<>>
  ELSE IF Len(parts) = 1 THEN parts[1]
  ELSE parts[1] \o sep \o Join(Tail(parts), sep)

AssembleMatrix(services) ==
  <<"{\"include\":[">>
    \o (IF Len(services) > 0 THEN Join(services, <<",">>) ELSE <<>>)
    \o <<"]}">>

EmptyMatrixLiteral == <<"{\"include\":[", "]}">>

JobIfAlways(out) == TRUE
\* if: needs.detect-changes.outputs.services != '{"include":[]}'
JobIf(out) == out # EmptyMatrixLiteral

RECURSIVE SplitOn(_, _, _, _)
SplitOn(s, sep, cur, acc) ==
  IF s = <<>> THEN (IF cur = <<>> /\ acc = <<>> THEN acc ELSE Append(acc, cur))
  ELSE IF Head(s) = sep THEN SplitOn(Tail(s), sep, <<>>, Append(acc, cur))
  ELSE SplitOn(Tail(s), sep, Append(cur, Head(s)), acc)

FromJsonFirst(out) ==
  LET body == SubSeq(out, 2, Len(out) - 1)
      objs == SplitOn(body, ",", <<>>, <<>>)
  IN [i \in 1..(IF objs = <<>> THEN 0 ELSE 1) |-> SubSeq(objs[i], 2, Len(objs[i]) - 1)]
\* fromJson(...).include[*].service
FromJson(out) ==
  LET body == SubSeq(out, 2, Len(out) - 1)
      objs == SplitOn(body, ",", <<>>, <<>>)
  IN [i \in 1..Len(objs) |-> SubSeq(objs[i], 2, Len(objs[i]) - 1)]

\* ------------------------------------------------------ job build-and-push
\* strategy.fail-fast is not set: the default cancels the matrix on a failure
FailFast == TRUE

ShortRefLen == 7
Min(a, b) == IF a < b THEN a ELSE b

ShortRefFull(sha) == sha
\* ${GITHUB_SHA::7}
ShortRef(sha) == SubSeq(sha, 1, Min(ShortRefLen, Len(sha)))

LastSlash(s) ==
  LET at == {i \in 1..Len(s) : s[i] = "/"}
  IN IF at = {} THEN 0 ELSE CHOOSE i \in at : \A j \in at : j <= i

FirstSegment(s) ==
  LET at == {i \in 1..Len(s) : s[i] = "/"}
  IN IF at = {} THEN s ELSE SubSeq(s, 1, (CHOOSE i \in at : \A j \in at : i <= j) - 1)
\* basename $SERVICE
Basename(s) == SubSeq(s, LastSlash(s) + 1, Len(s))

\* secrets.DOCKER_USERNAME
DockerUser == <<"k","o","d","e","n">>

ImageLatest(service) ==
  DockerUser \o <<"/">> \o Basename(service) \o <<":","l","a","t","e","s","t">>

ImageSha(service, sha) ==
  DockerUser \o <<"/">> \o Basename(service) \o <<":">> \o ShortRef(sha)

RootDockerfile(service) == service \o <<"/","D","o","c","k","e","r","f","i","l","e">>
NestedDockerfile(service) ==
  service \o <<"/","s","r","c","/","D","o","c","k","e","r","f","i","l","e">>

ResolveDescriptorNestedFirst(service, files) ==
  IF NestedDockerfile(service) \in files
  THEN [found |-> TRUE, dockerfile |-> NestedDockerfile(service),
        context |-> service \o <<"/","s","r","c">>]
  ELSE [found |-> RootDockerfile(service) \in files,
        dockerfile |-> RootDockerfile(service), context |-> service]
ResolveDescriptorNoCheck(service, files) ==
  IF RootDockerfile(service) \in files
  THEN [found |-> TRUE, dockerfile |-> RootDockerfile(service), context |-> service]
  ELSE [found |-> TRUE, dockerfile |-> NestedDockerfile(service),
        context |-> service \o <<"/","s","r","c">>]
\* DOCKERFILE_PATH / CONTEXT_PATH; found is the result of the last [ -f ] test
ResolveDescriptor(service, files) ==
  IF RootDockerfile(service) \in files
  THEN [found |-> TRUE, dockerfile |-> RootDockerfile(service), context |-> service]
  ELSE [found |-> NestedDockerfile(service) \in files,
        dockerfile |-> NestedDockerfile(service),
        context |-> service \o <<"/","s","r","c">>]

\* actions/cache: key and restore-keys
CacheKey(service, sha) == <<"Linux", "-buildx-">> \o service \o <<"-">> \o sha
RestoreKey(service) == <<"Linux", "-buildx-">> \o service \o <<"-">>

Absent == <<>>

\* actions/cache restore: exact key first, else the newest entry with the prefix
CacheRestore(store, key, prefix) ==
  LET exact == {i \in 1..Len(store) : store[i].key = key}
      loose == {i \in 1..Len(store) : StartsWith(store[i].key, prefix)}
  IN IF exact # {}
     THEN [hit |-> TRUE, content |-> store[CHOOSE i \in exact : TRUE].content]
     ELSE IF loose # {}
     THEN [hit |-> FALSE,
           content |-> store[CHOOSE i \in loose : \A j \in loose : j <= i].content]
     ELSE [hit |-> FALSE, content |-> Absent]

\* actions/cache post step: saves the cached path under the primary key
CacheSave(store, key, hit, content) ==
  IF hit \/ content = Absent \/ \E i \in 1..Len(store) : store[i].key = key
  THEN store
  ELSE Append(store, [key |-> key, content |-> content])

PostCacheAlways(status) == TRUE
\* actions/cache registers its post step with post-if: success()
PostCacheIf(status) == status = "success"

\* post step of "Cache Docker layers" at the end of a job with the given status
PostCache(store, status, key, hit, content) ==
  IF PostCacheIf(status) THEN CacheSave(store, key, hit, content) ELSE store

PushKeepExisting(reg, tags, digest) ==
  [t \in DOMAIN reg \cup tags |-> IF t \in DOMAIN reg THEN reg[t] ELSE digest]
\* docker buildx build --push -t $IMAGE_LATEST -t $IMAGE_SHA
Push(reg, tags, digest) ==
  [t \in DOMAIN reg \cup tags |-> IF t \in tags THEN digest ELSE reg[t]]

ServiceTags(service) ==
  {ImageLatest(service)} \cup {ImageSha(service, c) : c \in Commits}

\* image digests a build of the service can yield: one the registry already
\* holds for the service (a reproducible rebuild) or a new one, named by the
\* first unused number
BuildDigests(reg, service) ==
  LET known == {reg[t] : t \in DOMAIN reg \cap ServiceTags(service)}
      unused == (1..MaxDigest) \ known
  IN known \cup (IF unused = {} THEN {}
                 ELSE {CHOOSE d \in unused : \A e \in unused : d <= e})

Terminal(u) == u.pc \in {"success", "failure", "cancelled"}

ConclusionContinueOnError(units) == "success"
\* conclusion of the workflow run from the conclusions of its jobs
Conclusion(units) ==
  IF \A s \in DOMAIN units : units[s].pc = "success" THEN "success" ELSE "failure"

\* ------------------------------------------------------------------ state
NoEvent == [before |-> ZeroSha, sha |-> ZeroSha, diff |-> <<>>]
NoUnits == [d \in {} |-> 0]
NoRegistry == [t \in {} |-> 0]

QueuedUnit ==
  [pc |-> "queued", err |-> "none", files |-> {}, dockerfile |-> <<>>,
   context |-> <<>>, digest |-> 0, bxCache |-> Absent, cacheHit |-> FALSE,
   bxCacheNew |-> Absent]

\* diffs of the pushes that start a run of the whole pipeline
PipeDiffs ==
  {<<f_frontend_css>>, <<f_cart_go, f_frontend_css>>, <<f_readme, f_release>>,
   <<f_readme>>}

\* caches left by earlier workflow revisions under this workflow's keys
SeedStores ==
  {<<>>, <<[key |-> CacheKey(src_frontend, HeadB), content |-> <<"seed">>]>>}

Init ==
  /\ phase = "Idle"
  /\ step = "none"
  /\ event = NoEvent
  /\ objects = {}
  /\ changed = <<>>
  /\ matrixOut = <<>>
  /\ unit = NoUnits
  /\ conclusion = "none"
  /\ registry = NoRegistry
  /\ cacheStore \in SeedStores
  /\ credsOk = TRUE
  /\ runs = 0

\* a push event passes the paths filter and starts a workflow run
Trigger ==
  /\ phase \in {"Idle", "Done"}
  /\ runs < MaxRuns
  /\ \E sha \in Commits, b \in Befores, d \in PipeDiffs, c \in BOOLEAN :
       /\ b \in Commits => (b # sha /\ PathsFilter(d))
       /\ event' = [before |-> b, sha |-> sha,
                    diff |-> IF b \in Commits THEN d ELSE <<>>]
       /\ credsOk' = c
  /\ phase' = "Detecting"
  /\ step' = "checkout"
  /\ objects' = {}
  /\ changed' = <<>>
  /\ matrixOut' = <<>>
  /\ unit' = NoUnits
  /\ conclusion' = "none"
  /\ runs' = runs + 1
  /\ UNCHANGED <<registry, cacheStore>>

\* detect-changes: actions/checkout with fetch-depth 0
DetectCheckout ==
  /\ phase = "Detecting" /\ step = "checkout"
  /\ objects' = Checkout(FetchDepth, event.sha)
  /\ step' = "script"
  /\ UNCHANGED <<phase, event, changed, matrixOut, unit, conclusion, registry,
                 cacheStore, credsOk, runs>>

\* script of step "Detect Changed Microservices" stopped by a failing git diff;
\* the job fails, build-and-push (needs: detect-changes) is skipped
DetectFails ==
  /\ phase = "Detecting" /\ step = "script"
  /\ LET r == GitDiffNameOnly(event.before, event.sha, objects, event.diff)
     IN /\ Errexit /\ r.status # 0
        /\ phase' = "Done"
        /\ conclusion' = "failure"
  /\ step' = "none"
  /\ UNCHANGED <<event, objects, changed, matrixOut, unit, registry, cacheStore,
                 credsOk, runs>>

\* script of step "Detect Changed Microservices" run to its end
DetectChangedMicroservices ==
  /\ phase = "Detecting" /\ step = "script"
  /\ LET r == GitDiffNameOnly(event.before, event.sha, objects, event.diff)
     IN /\ ~(Errexit /\ r.status # 0)
        /\ changed' = r.out
        /\ matrixOut' = AssembleMatrix(ServicesLoop(PathRegistry, EchoLines(r.out), <<>>))
  /\ phase' = "MatrixComputed"
  /\ step' = "none"
  /\ UNCHANGED <<event, objects, unit, conclusion, registry, cacheStore,
                 credsOk, runs>>

\* build-and-push: the job's `if` is false, the job is skipped
SkipBuildJob ==
  /\ phase = "MatrixComputed"
  /\ ~JobIf(matrixOut)
  /\ phase' = "Skipped"
  /\ UNCHANGED <<step, event, objects, changed, matrixOut, unit, conclusion,
                 registry, cacheStore, credsOk, runs>>

\* the run of a skipped build-and-push completes
FinishSkipped ==
  /\ phase = "Skipped"
  /\ phase' = "Done"
  /\ conclusion' = "success"
  /\ UNCHANGED <<step, event, objects, changed, matrixOut, unit, registry,
                 cacheStore, credsOk, runs>>

\* build-and-push: strategy.matrix expands into one job per include entry
FanOut ==
  /\ phase = "MatrixComputed"
  /\ JobIf(matrixOut)
  /\ phase' = "FanningOut"
  /\ unit' = [s \in Range(FromJson(matrixOut)) |-> QueuedUnit]
  /\ UNCHANGED <<step, event, objects, changed, matrixOut, conclusion, registry,
                 cacheStore, credsOk, runs>>

CancelRequested == FailFast /\ \E v \in DOMAIN unit : unit[v].pc = "failure"

Running(s) ==
  /\ phase = "FanningOut"
  /\ s \in DOMAIN unit

FrameUnit == UNCHANGED <<phase, step, event, objects, changed, matrixOut,
                         conclusion, credsOk, runs>>

DockerfilesOf(s) == {RootDockerfile(s), NestedDockerfile(s)}

\* step "Checkout code" of a matrix job picked up by a runner
UnitCheckout(s) ==
  /\ Running(s) /\ unit[s].pc = "queued"
  /\ ~CancelRequested
  /\ unit' = [unit EXCEPT ![s].pc = "checkout"]
  /\ FrameUnit /\ UNCHANGED <<registry, cacheStore>>

\* step "Set up Docker Buildx"
UnitSetupBuildx(s) ==
  /\ Running(s) /\ unit[s].pc = "checkout"
  /\ unit' = [unit EXCEPT ![s].pc = "buildx"]
  /\ FrameUnit /\ UNCHANGED <<registry, cacheStore>>

\* step "Cache Docker layers": restore into /tmp/.buildx-cache
UnitCacheRestore(s) ==
  /\ Running(s) /\ unit[s].pc = "buildx"
  /\ LET r == CacheRestore(cacheStore, CacheKey(s, event.sha), RestoreKey(s))
     IN unit' = [unit EXCEPT ![s].pc = "cache", ![s].bxCache = r.content,
                             ![s].cacheHit = r.hit]
  /\ FrameUnit /\ UNCHANGED <<registry, cacheStore>>

\* step "Log in to DockerHub"
UnitLogin(s) ==
  /\ Running(s) /\ unit[s].pc = "cache"
  /\ credsOk
  /\ unit' = [unit EXCEPT ![s].pc = "login"]
  /\ FrameUnit /\ UNCHANGED <<registry, cacheStore>>

\* step "Log in to DockerHub" with absent or rejected secrets
UnitLoginFails(s) ==
  /\ Running(s) /\ unit[s].pc = "cache"
  /\ ~credsOk
  /\ unit' = [unit EXCEPT ![s].pc = "failure", ![s].err = "RegistryAuthFailure"]
  /\ cacheStore' = PostCache(cacheStore, "failure", CacheKey(s, event.sha),
                            unit[s].cacheHit, unit[s].bxCache)
  /\ FrameUnit /\ UNCHANGED registry

\* step "Build and Push Docker Image": no Dockerfile at either place, exit 1
UnitDescriptorNotFound(s) ==
  /\ Running(s) /\ unit[s].pc = "login"
  /\ \E files \in SUBSET DockerfilesOf(s) :
       /\ ~ResolveDescriptor(s, files).found
       /\ unit' = [unit EXCEPT ![s].pc = "failure", ![s].err = "DescriptorNotFound",
                               ![s].files = files]
  /\ cacheStore' = PostCache(cacheStore, "failure", CacheKey(s, event.sha),
                            unit[s].cacheHit, unit[s].bxCache)
  /\ FrameUnit /\ UNCHANGED registry

\* step "Build and Push Docker Image": docker buildx build fails
UnitBuildFails(s) ==
  /\ Running(s) /\ unit[s].pc = "login"
  /\ \E files \in SUBSET DockerfilesOf(s), kind \in {"BuildFailed", "PushFailed"} :
       LET r == ResolveDescriptor(s, files)
       IN /\ r.found
          /\ unit' = [unit EXCEPT ![s].pc = "failure", ![s].err = kind,
                                  ![s].files = files,
                                  ![s].dockerfile = r.dockerfile,
                                  ![s].context = r.context]
  /\ cacheStore' = PostCache(cacheStore, "failure", CacheKey(s, event.sha),
                            unit[s].cacheHit, unit[s].bxCache)
  /\ FrameUnit /\ UNCHANGED registry

\* step "Build and Push Docker Image": image built and both tags pushed
UnitBuildAndPush(s) ==
  /\ Running(s) /\ unit[s].pc = "login"
  /\ \E files \in SUBSET DockerfilesOf(s), d \in BuildDigests(registry, s) :
       LET r == ResolveDescriptor(s, files)
       IN /\ r.found
          /\ unit' = [unit EXCEPT ![s].pc = "built", ![s].files = files,
                                  ![s].dockerfile = r.dockerfile,
                                  ![s].context = r.context,
                                  ![s].digest = d,
                                  ![s].bxCacheNew = <<"layers", d>>]
          /\ registry' = Push(registry, {ImageLatest(s), ImageSha(s, event.sha)}, d)
  /\ FrameUnit /\ UNCHANGED cacheStore

\* post step of "Cache Docker layers": save /tmp/.buildx-cache
UnitPostCache(s) ==
  /\ Running(s) /\ unit[s].pc = "built"
  /\ cacheStore' = PostCache(cacheStore, "success", CacheKey(s, event.sha),
                            unit[s].cacheHit, unit[s].bxCache)
  /\ unit' = [unit EXCEPT ![s].pc = "success"]
  /\ FrameUnit /\ UNCHANGED registry

\* fail-fast: a failed matrix job cancels the queued and in-progress ones
UnitCancel(s) ==
  /\ Running(s) /\ ~Terminal(unit[s])
  /\ CancelRequested
  /\ unit' = [unit EXCEPT ![s].pc = "cancelled"]
  /\ cacheStore' = PostCache(cacheStore, "cancelled", CacheKey(s, event.sha),
                            unit[s].cacheHit, unit[s].bxCache)
  /\ FrameUnit /\ UNCHANGED registry

\* every matrix job has ended: the run gets its conclusion
CompleteRun ==
  /\ phase = "FanningOut"
  /\ \A s \in DOMAIN unit : Terminal(unit[s])
  /\ phase' = "Done"
  /\ conclusion' = Conclusion(unit)
  /\ UNCHANGED <<step, event, objects, changed, matrixOut, unit, registry,
                 cacheStore, credsOk, runs>>

UnitStep ==
  \E s \in Range(PathRegistry) :
    \/ UnitCheckout(s)
    \/ UnitSetupBuildx(s)
    \/ UnitCacheRestore(s)
    \/ UnitLogin(s)
    \/ UnitLoginFails(s)
    \/ UnitDescriptorNotFound(s)
    \/ UnitBuildFails(s)
    \/ UnitBuildAndPush(s)
    \/ UnitPostCache(s)
    \/ UnitCancel(s)

Next ==
  \/ Trigger
  \/ DetectCheckout
  \/ DetectFails
  \/ DetectChangedMicroservices
  \/ SkipBuildJob
  \/ FinishSkipped
  \/ FanOut
  \/ UnitStep
  \/ CompleteRun

Spec == Init /\ [][Next]_vars

\* MatrixBuilder as a function: every diff output, script applied once
InitMatrix ==
  /\ phase = "Detecting" /\ step = "script"
  /\ \E b \in Befores, d \in AllDiffs :
       /\ b \notin Commits => d = <<>>
       /\ event = [before |-> b, sha |-> HeadA, diff |-> d]
  /\ objects = Checkout(FetchDepth, HeadA)
  /\ changed = <<>>
  /\ matrixOut = <<>>
  /\ unit = NoUnits
  /\ conclusion = "none"
  /\ registry = NoRegistry
  /\ cacheStore = <<>>
  /\ credsOk = TRUE
  /\ runs = 1

NextMatrix == DetectFails \/ DetectChangedMicroservices

SpecMatrix == InitMatrix /\ [][NextMatrix]_vars

\* ------------------------------------------------------------- properties
Matrix == FromJson(matrixOut)

Matched(e) == \E p \in Range(changed) : StartsWith(p, e \o <<"/">>)

\* C1: a registry entry is in the matrix iff some changed path starts with
\* its path followed by "/"; sharing the prefix without the separator, or
\* lying outside every registry path, never includes it.
C1_MatrixInclusion ==
  phase = "MatrixComputed" =>
    \A i \in 1..Len(PathRegistry) :
      (PathRegistry[i] \in Range(Matrix)) <=> Matched(PathRegistry[i])

C1_Witness ==
  /\ phase = "MatrixComputed"
  /\ changed = <<f_cart2, f_cart_extra, f_frontend_css>>
  /\ Matrix = <<src_frontend>>

\* C2: the failure of one unit never cancels a sibling nor keeps it from
\* starting: no unit of a run ever ends cancelled.
C2_FailureIsolation ==
  \A s \in DOMAIN unit : unit[s].pc # "cancelled"

\* C3: scenario D: of two matched services one has no descriptor and the
\* other does not fail by itself; the run ends as a partial failure with the
\* other service's image pushed under both of its tags.
C3_ScenarioD ==
  (/\ phase = "Done"
   /\ Cardinality(DOMAIN unit) = 2) =>
    \A s, o \in DOMAIN unit :
      (s # o /\ unit[s].err = "DescriptorNotFound" /\ unit[o].err = "none") =>
        /\ conclusion = "failure"
        /\ unit[o].pc = "success"
        /\ ImageLatest(o) \in DOMAIN registry
        /\ ImageSha(o, event.sha) \in DOMAIN registry
        /\ registry[ImageSha(o, event.sha)] = unit[o].digest

\* C4: a finished run whose matrix was computed reports success iff the
\* matrix was empty or every matrix entry's unit succeeded.
C4_OverallStatus ==
  (phase = "Done" /\ matrixOut # <<>>) =>
    (conclusion = "success" <=>
       \A i \in 1..Len(Matrix) :
         Matrix[i] \in DOMAIN unit /\ unit[Matrix[i]].pc = "success")

C4_Witness ==
  /\ phase = "Done"
  /\ conclusion = "failure"
  /\ \E s, o \in DOMAIN unit : unit[s].pc = "success" /\ unit[o].err = "BuildFailed"

\* C5: when no changed path lies under a registry path the run goes
\* MatrixComputed -> Skipped -> Done(success); no unit exists and neither the
\* cache nor the registry changes on the way.
C5_EmptyMatrixSkips ==
  [][/\ (phase = "MatrixComputed" /\ \A i \in 1..Len(PathRegistry) : ~Matched(PathRegistry[i]))
        => (phase' = "Skipped" /\ unit' = NoUnits /\ UNCHANGED <<registry, cacheStore>>)
     /\ phase = "Skipped"
        => (/\ phase' = "Done" /\ conclusion' = "success"
            /\ unit' = NoUnits /\ UNCHANGED <<registry, cacheStore>>)]_vars

C5_Witness ==
  /\ phase = "Done"
  /\ conclusion = "success"
  /\ changed = <<f_readme, f_release>>
  /\ unit = NoUnits

IsCommitTag(t) ==
  \E i \in 1..Len(PathRegistry), c \in Commits : t = ImageSha(PathRegistry[i], c)

\* C6: a commit-derived tag that the registry holds is replaced by another
\* digest only together with a PushConflict report of the pushing unit.
C6_NoSilentOverwrite ==
  [][\A t \in DOMAIN registry :
       (IsCommitTag(t) /\ registry'[t] # registry[t]) =>
         \E s \in DOMAIN unit' : unit'[s].err = "PushConflict"]_vars

\* C7: with absent or rejected registry credentials the run aborts before any
\* unit is spawned: no unit ever leaves the queue.
C7_AuthBeforeUnits ==
  ~credsOk => \A s \in DOMAIN unit : unit[s].pc = "queued"

\* C8: when the before-reference has no history the change set is empty and
\* the run continues with an empty matrix instead of failing.
C8_NoHistoryIsEmpty ==
  (event.before = ZeroSha /\ phase \notin {"Idle", "Detecting"}) =>
    /\ changed = <<>>
    /\ matrixOut = EmptyMatrixLiteral
    /\ conclusion # "failure"

\* C9: when git cannot diff base against head the run goes from Detecting
\* to Done(failed); no unit is spawned, no cache written, nothing pushed.
C9_HistoryUnavailableFatal ==
  [][(/\ phase = "Detecting" /\ step = "script"
      /\ (event.before \notin objects \/ event.sha \notin objects))
     => (/\ phase' = "Done" /\ conclusion' = "failure"
         /\ unit' = NoUnits /\ UNCHANGED <<registry, cacheStore>>)]_vars

C9_Witness ==
  /\ phase = "Done"
  /\ conclusion = "failure"
  /\ event.before = GoneSha
  /\ unit = NoUnits

\* C10: the matrix is the PathRegistry sequence restricted to the matched
\* entries, each once, whatever the order and multiplicity of changed paths.
C10_RegistryOrder ==
  phase = "MatrixComputed" => Matrix = SelectSeq(PathRegistry, Matched)

C10_Witness ==
  /\ phase = "MatrixComputed"
  /\ changed = <<f_payment_js, f_readme, f_cart_go>>
  /\ Matrix = <<src_cartservice, src_paymentservice>>

Resolved(u) == u.pc \in {"built", "success"} \/ u.err \in {"BuildFailed", "PushFailed"}

\* C11: a unit that resolved its descriptor uses <path>/Dockerfile with
\* context <path> whenever the root file exists, whether or not the nested
\* one exists too, and <path>/src/Dockerfile with context <path>/src only when
\* the root file is absent and the nested one exists.
C11_ResolverPriority ==
  \A s \in DOMAIN unit :
    Resolved(unit[s]) =>
      LET root == s \o <<"/","D","o","c","k","e","r","f","i","l","e">>
          nested == s \o <<"/","s","r","c","/","D","o","c","k","e","r","f","i","l","e">>
      IN /\ root \in unit[s].files =>
              unit[s].dockerfile = root /\ unit[s].context = s
         /\ root \notin unit[s].files =>
              /\ nested \in unit[s].files
              /\ unit[s].dockerfile = nested
              /\ unit[s].context = s \o <<"/","s","r","c">>

C11_Witness ==
  \E s \in DOMAIN unit :
    /\ unit[s].pc = "success"
    /\ unit[s].files = {RootDockerfile(s), NestedDockerfile(s)}
    /\ unit[s].dockerfile = RootDockerfile(s)
    /\ unit[s].context = s

\* C12: a unit that builds and pushes writes exactly the two references
\* <user>/<name>:latest and <user>/<name>:<first 7 characters of the head>,
\* <name> being the last segment of the service path, both with its digest.
C12_TagsDeterministic ==
  [][\A s \in DOMAIN unit \cap DOMAIN unit' :
       (unit[s].pc = "login" /\ unit'[s].pc = "built") =>
         LET name == SubSeq(s, 5, Len(s))
             user == <<"k","o","d","e","n","/">>
             latest == user \o name \o <<":","l","a","t","e","s","t">>
             commit == user \o name \o <<":">> \o [i \in 1..7 |-> event.sha[i]]
             pushed == {t \in DOMAIN registry' :
                          t \notin DOMAIN registry \/ registry'[t] # registry[t]}
         IN /\ pushed \subseteq {latest, commit}
            /\ {latest, commit} \subseteq DOMAIN registry'
            /\ registry'[latest] = unit'[s].digest
            /\ registry'[commit] = unit'[s].digest]_vars

C12_Witness ==
  /\ src_frontend \in DOMAIN unit
  /\ unit[src_frontend].pc = "built"
  /\ event.sha = HeadA
  /\ DOMAIN registry =
       {<<"k","o","d","e","n","/","f","r","o","n","t","e","n","d",":","l","a","t","e","s","t">>,
        <<"k","o","d","e","n","/","f","r","o","n","t","e","n","d",":","a","1","b","2","c","3","d">>}

\* C13: a unit that fails leaves the stored caches and the content of its
\* read location as they were, and no step ever changes or removes a cache
\* entry that is already stored.
C13_FailureKeepsCache ==
  [][/\ \A s \in DOMAIN unit \cap DOMAIN unit' :
          (~Terminal(unit[s]) /\ unit'[s].pc = "failure") =>
            /\ cacheStore' = cacheStore
            /\ unit'[s].bxCache = unit[s].bxCache
     /\ \A i \in 1..Len(cacheStore) :
          Len(cacheStore') >= i /\ cacheStore'[i] = cacheStore[i]]_vars

C13_Witness ==
  \E s \in DOMAIN unit :
    /\ unit[s].pc = "failure"
    /\ unit[s].err = "BuildFailed"
    /\ unit[s].bxCache = <<"seed">>
    /\ ~unit[s].cacheHit
    /\ Len(cacheStore) = 1

IsLatestTag(t) ==
  Len(t) >= 7 /\ SubSeq(t, Len(t) - 6, Len(t)) = <<":","l","a","t","e","s","t">>
C15_SameRefEmptyMatrix ==
  (phase = "MatrixComputed" /\ event.before = event.sha) =>
    /\ changed = <<>>
    /\ matrixOut = EmptyMatrixLiteral
    /\ Matrix = <<>>
    /\ ~JobIf(matrixOut)

C15_Witness ==
  /\ phase = "MatrixComputed"
  /\ event.before = event.sha
  /\ event.diff = <<f_cart_go, f_frontend_css>>
  /\ Matrix = <<>>

\* C16: when a run is over every matrix entry has a unit that ran to a result
\* of its own, success or failure: none was cancelled, skipped or left out.
C16_NoUnitDropped ==
  phase = "Done" =>
    \A i \in 1..Len(Matrix) :
      /\ Matrix[i] \in DOMAIN unit
      /\ unit[Matrix[i]].pc \in {"success", "failure"}

\* C17: when a unit's build and push have succeeded, the end of the unit
\* stores under the key of (os, service, head) the cache the build wrote to
\* the staging location.
C17_CachePromoted ==
  [][\A s \in DOMAIN unit \cap DOMAIN unit' :
       (unit[s].pc = "built" /\ unit'[s].pc = "success") =>
         \E i \in 1..Len(cacheStore') :
           /\ cacheStore'[i].key = CacheKey(s, event.sha)
           /\ cacheStore'[i].content = unit[s].bxCacheNew]_vars

PushedFor(s) ==
  \E t \in ServiceTags(s) :
    /\ t \in DOMAIN registry'
    /\ (t \notin DOMAIN registry \/ registry'[t] # registry[t])

\* C18: a unit builds and pushes only in the step that has resolved its
\* descriptor to an existing file, and a unit whose descriptor is at neither
\* place ends in failure without an image and without a pushed tag.
C18_ResolveBuildPush ==
  [][\A s \in DOMAIN unit \cap DOMAIN unit' :
       /\ (unit'[s].digest # unit[s].digest \/ PushedFor(s)) =>
            /\ unit[s].pc = "login" /\ unit'[s].pc = "built"
            /\ unit'[s].dockerfile \in unit'[s].files
            /\ \A t \in {ImageLatest(s), ImageSha(s, event.sha)} :
                 t \in DOMAIN registry' /\ registry'[t] = unit'[s].digest
       /\ unit'[s].err = "DescriptorNotFound" =>
            /\ unit'[s].pc = "failure"
            /\ unit'[s].files = {}
            /\ unit'[s].digest = 0
            /\ ~PushedFor(s)]_vars

C18_Witness ==
  \E s \in DOMAIN unit :
    /\ phase = "Done"
    /\ unit[s].err = "DescriptorNotFound"
    /\ unit[s].digest = 0
    /\ ServiceTags(s) \cap DOMAIN registry = {}

\* C19: no unit exists before the detect job has computed the matrix; the
\* fan-out creates, all queued, exactly the units of the matched registry
\* entries, and this set stays the same until the run is over.
C19_FanOutBarrier ==
  /\ [](/\ phase \in {"Idle", "Detecting", "MatrixComputed", "Skipped"} => unit = NoUnits
        /\ phase = "FanningOut" =>
             /\ DOMAIN unit = {e \in Range(PathRegistry) : Matched(e)}
             /\ DOMAIN unit # {})
  /\ [][/\ (phase = "MatrixComputed" /\ phase' = "FanningOut") =>
             \A s \in DOMAIN unit' : unit'[s] = QueuedUnit
        /\ (phase = "FanningOut" /\ phase' \in {"FanningOut", "Done"}) =>
             DOMAIN unit' = DOMAIN unit]_vars

C19_Witness ==
  /\ phase = "FanningOut"
  /\ DOMAIN unit = {src_frontend, src_cartservice}
  /\ unit[src_frontend].pc = "success"
  /\ unit[src_cartservice].pc = "checkout"

TagsOf(s, sha) == {ImageLatest(s), ImageSha(s, sha)}

\* the 12 registry entries give pairwise distinct paths and image references
RegistryTagsDisjoint ==
  \A i, j \in 1..Len(PathRegistry) :
    i # j =>
      /\ PathRegistry[i] # PathRegistry[j]
      /\ \A c \in Commits :
           TagsOf(PathRegistry[i], c) \cap TagsOf(PathRegistry[j], c) = {}

\* C20: the registry paths are pairwise distinct and so are the image
\* references derived from them: the units of a run push to disjoint sets
\* of tags, whatever the head.
C20_DisjointTags ==
  /\ RegistryTagsDisjoint
  /\ \A s, o \in DOMAIN unit :
       s # o => TagsOf(s, event.sha) \cap TagsOf(o, event.sha) = {}
  /\ \A s \in DOMAIN unit :
       unit[s].pc \in {"built", "success"} =>
         \A t \in TagsOf(s, event.sha) :
           t \in DOMAIN registry /\ registry[t] = unit[s].digest

C20_Witness ==
  /\ DOMAIN unit = {src_frontend, src_cartservice}
  /\ unit[src_frontend].pc = "built"
  /\ unit[src_cartservice].pc = "built"
  /\ Cardinality(DOMAIN registry) = 4
  /\ runs = 1

====
